---- MODULE Spec2Model ----
(***************************************************************************)
(* A model of the Aqara MCP server: the vendor API client (aqara-client.ts *)
(* with its Bottleneck limiter and node-cache response cache), the helpers *)
(* of utils.ts and the tool handlers of index.ts.                          *)
(*                                                                         *)
(* Time is kept relative: every timer of the program (the limiter's        *)
(* minTime spacing, each cache entry's time to live, the age of a request  *)
(* start) is a number of milliseconds that Tick moves.                     *)
(***************************************************************************)
EXTENDS Integers, Sequences, FiniteSets, TLC

\* ---------------------------------------------------------------- constants

\* Bottleneck configuration (AqaraClient constructor).
minTime == 200
maxConcurrent == 3

\* Per-operation time to live handed to cache.set, in seconds.
DeviceListTTL == 300
DeviceStatusTTL == 30
SceneListTTL == 600

\* ------------------------------------------------------------------- bounds

\* Tool invocations of one run of the server (Spec).
MaxCalls == 3
\* Tool invocations of one run of the tool boundary (ToolSpec).
MaxToolCalls == 1
\* Tool invocations of one run of the limiter (LimSpec).
MaxLimCalls == 6
\* Tool invocations of one run of the limiter that runs on (FairSpec).
MaxFairCalls == 4
\* Tool invocations of one run of reads and clears (ClearSpec).
MaxClearCalls == 4
\* Tool invocations of one run of the cached reads (ReadSpec).
MaxReadCalls == 3
\* Tool invocations of one run of mixed operations (OrderSpec).
MaxOrderCalls == 3
\* Tool invocations of one run from startup (BootSpec).
MaxBootCalls == 2
\* Tool invocations of one run of the uncached operations (WriteSpec).
MaxWriteCalls == 3
\* Tool invocations of one run that a signal ends (StopSpec).
MaxStopCalls == 3
\* Tool invocations of one run of reads and writes of two devices (FrameSpec).
MaxFrameCalls == 3
\* Tool invocations of one run of reads over several keys (KeySpec).
MaxKeyCalls == 2
\* Tool invocations of one run of device listings (OnlineSpec).
MaxOnlineCalls == 2
\* Tool invocations of one run of reads that may fail (StoreSpec).
MaxStoreCalls == 2
\* Clock steps taken while the cache holds entries.
MaxTicks == 2

\* ------------------------------------------------------------------ helpers

\* A string that is absent (JavaScript undefined).
Undef == "undefined"

\* JavaScript truthiness of a string that may be absent, and of a number.
TruthyStr(s) == s \notin {Undef, ""}
TruthyNum(n) == n # 0

\* ------------------------------------------------------------------ types.ts

\* A Device, by the fields the client reads.
Device(did, online) == [did |-> did, online |-> online]

\* An optional list field of the envelope (result, data).
Absent == [present |-> FALSE, list |-> <<>>]
Some(list) == [present |-> TRUE, list |-> list]

\* AqaraResponse<T>: the vendor's envelope.
Envelope(code, message, msgDetails, requestId, result, data) ==
    [code |-> code, message |-> message, msgDetails |-> msgDetails,
     requestId |-> requestId, result |-> result, data |-> data]

\* The value of an envelope variable that holds none.
NoEnvelope == Envelope(0, Undef, Undef, Undef, Absent, Absent)

\* A credential string, by its characters, as process.env holds it: unset, or
\* set to a string that may be empty.
Unset == [set |-> FALSE, s |-> <<>>]
Str(s) == [set |-> TRUE, s |-> s]

\* JavaScript truthiness of such a value: set and not "".
TruthyEnv(v) == v.set /\ v.s # <<>>

\* String.prototype.toLowerCase, over the characters the credentials use.
Lower(ch) ==
    CASE ch = "A" -> "a" [] ch = "K" -> "k" [] ch = "T" -> "t"
      [] OTHER -> ch
toLowerCase(s) == [n \in 1..Len(s) |-> Lower(s[n])]

\* AqaraConfig. region is a whole string.
AqaraConfig(appId, appKey, keyId, appSecret, region, accessToken) ==
    [appId |-> appId, appKey |-> appKey, keyId |-> keyId,
     appSecret |-> appSecret, region |-> region, accessToken |-> accessToken]
NoConfig == AqaraConfig(Unset, Unset, Unset, Unset, Undef, Unset)

\* ------------------------------------------------------------------ utils.ts

\* new AqaraError(code, message, details, requestId)
AqaraError(code, message, details, requestId) ==
    [name |-> "AqaraError", code |-> code, errcode |-> Undef,
     message |-> message, details |-> details, requestId |-> requestId]

\* new Error(message)
PlainError(message) ==
    [name |-> "Error", code |-> 0, errcode |-> Undef, message |-> message,
     details |-> Undef, requestId |-> Undef]

\* The rejection axios builds for a failed request, with axios's code
\* (ECONNREFUSED, ETIMEDOUT, ECONNABORTED, ERR_BAD_RESPONSE) and message.
AxiosError(errcode, message) ==
    [name |-> "AxiosError", code |-> 0, errcode |-> errcode,
     message |-> message, details |-> Undef, requestId |-> Undef]

NoError == PlainError(Undef)

\* A returned value, and a thrown error.
Ok(value) == [ok |-> TRUE, value |-> value, err |-> NoError]
Throw(err) == [ok |-> FALSE, value |-> NoEnvelope, err |-> err]

\* What the transport did with one request: a response with a status and,
\* when hasBody, a body; or a network failure, with axios's code and message.
Response(status, hasBody, body) ==
    [kind |-> "response", status |-> status, hasBody |-> hasBody, body |-> body,
     errcode |-> IF status \in 200..299 THEN Undef ELSE "ERR_BAD_RESPONSE",
     errmsg |-> IF status \in 200..299 THEN Undef
                ELSE "Request failed with status code"]
NetworkFailure(errcode, errmsg) ==
    [kind |-> "neterr", status |-> 0, hasBody |-> FALSE, body |-> NoEnvelope,
     errcode |-> errcode, errmsg |-> errmsg]

\* handleAqaraResponse(response), response.data being the body.
handleAqaraResponseCarriesStatus(o) ==
    IF o.hasBody
    THEN IF o.body.code # 0
         THEN Throw(AqaraError(o.status, o.body.message, o.body.msgDetails,
                               o.body.requestId))
         ELSE Ok(o.body)
    ELSE Throw(PlainError("Invalid response format from Aqara API"))
handleAqaraResponse(o) ==
    IF o.hasBody
    THEN IF o.body.code # 0
         THEN Throw(AqaraError(o.body.code, o.body.message, o.body.msgDetails,
                               o.body.requestId))
         ELSE Ok(o.body)
    ELSE Throw(PlainError("Invalid response format from Aqara API"))

\* handleAqaraError(error), error being what axios rejected with (never an
\* AqaraError: the interceptor is the only caller).
handleAqaraError(o) ==
    IF o.kind = "response" /\ o.hasBody
    THEN Throw(AqaraError(
           IF TruthyNum(o.body.code) THEN o.body.code ELSE o.status,
           IF TruthyStr(o.body.message) THEN o.body.message ELSE o.errmsg,
           o.body.msgDetails, o.body.requestId))
    ELSE IF o.errcode = "ECONNREFUSED"
    THEN Throw(PlainError(
           "Unable to connect to Aqara API. Please check your network connection."))
    ELSE IF o.errcode = "ETIMEDOUT"
    THEN Throw(PlainError("Request to Aqara API timed out. Please try again."))
    ELSE Throw(AxiosError(o.errcode, o.errmsg))

\* The text of a tool that returned none.
NoText == [head |-> Undef, code |-> 0, message |-> Undef, details |-> Undef]

\* formatError(error): the text a tool returns for a caught error,
\* "Aqara API Error (<code>): <message>[ - <details>]" or "Error: <message>".
formatError(e) ==
    IF e.name = "AqaraError"
    THEN [head |-> "Aqara API Error", code |-> e.code, message |-> e.message,
          details |-> IF TruthyStr(e.details) THEN e.details ELSE Undef]
    ELSE [head |-> "Error", code |-> 0, message |-> e.message,
          details |-> Undef]

\* A time string, by its parts: its style ("iso" is
\* YYYY-MM-DDTHH:mm:ss[.sss] followed by Z or an offset, "text" a date string
\* such as "Jan 2 2024 01:00:00 GMT+0100" that Date also parses, "junk"
\* anything Date cannot parse, "none" no string), the day of January 2024, the
\* hour, the milliseconds (-1 when the string has no fraction) and the offset
\* from UTC in hours (0 is written Z in the iso style).
TimeStr(style, day, hour, ms, zone) ==
    [style |-> style, day |-> day, hour |-> hour, ms |-> ms, zone |-> zone]

NoTime == TimeStr("none", 0, 0, -1, 0)

\* new Date(timeStr).getTime(): the instant in hours and milliseconds since
\* 2024-01-01T00:00:00Z; nan when Date cannot parse the string.
DateParse(ts) ==
    [nan |-> ts.style \notin {"iso", "text"},
     hours |-> (ts.day - 1) * 24 + ts.hour - ts.zone,
     ms |-> IF ts.ms < 0 THEN 0 ELSE ts.ms]

\* date.toISOString(): always UTC, always with milliseconds.
toISOString(t) ==
    TimeStr("iso", (t.hours \div 24) + 1, t.hours % 24, t.ms, 0)

\* parseTimeString(timeStr): the normalised string, or the validation error.
parseTimeStringVerbatim(ts) ==
    [ok |-> ~DateParse(ts).nan, value |-> ts]
parseTimeString(ts) ==
    [ok |-> ~DateParse(ts).nan,
     value |-> IF DateParse(ts).nan THEN NoTime ELSE toISOString(DateParse(ts))]

InvalidTimeFormat ==
    PlainError("Invalid time format. Please use ISO 8601 format (e.g., \"2024-01-01T00:00:00Z\") or standard date strings.")

\* validateEnvironment(): the error it throws, by the names its message lists
\* ("Missing required environment variables: <names joined by ', '>. ..."),
\* or none.
requiredEnvVars ==
    <<"AQARA_APP_ID", "AQARA_APP_KEY", "AQARA_KEY_ID", "AQARA_APP_SECRET">>
NoConfigError == [raised |-> FALSE, missing |-> <<>>]
validateEnvironmentSkipsAppKey(e) ==
    LET missing == SelectSeq(requiredEnvVars,
                             LAMBDA x : x # "AQARA_APP_KEY" /\ ~TruthyEnv(e[x]))
    IN IF Len(missing) > 0 THEN [raised |-> TRUE, missing |-> missing]
       ELSE NoConfigError
validateEnvironment(e) ==
    LET missing == SelectSeq(requiredEnvVars, LAMBDA x : ~TruthyEnv(e[x]))
    IN IF Len(missing) > 0 THEN [raised |-> TRUE, missing |-> missing]
       ELSE NoConfigError

\* ----------------------------------------------------------- node-cache

\* The cache maps a key to [v: the stored response, left: the milliseconds
\* until the entry's expiry time t (t - Date.now(), -1 once past), age: the
\* milliseconds since it was stored (600001 once past the longest lifetime),
\* by: the tool invocation that stored it].

\* `${n}` of a page number or page size.
NumStr(n) ==
    CASE n = 1 -> "1" [] n = 2 -> "2" [] n = 30 -> "30" [] n = 100 -> "100"

\* The cache keys, as the pieces the template strings join.
DeviceListKeyPageOnly(pageNum, pageSize) == <<"devices_", NumStr(pageNum)>>
DeviceListKey(pageNum, pageSize) ==
    <<"devices_", NumStr(pageNum), "_", NumStr(pageSize)>>
DeviceStatusKey(deviceId) == <<"device_status_", deviceId>>
SceneListKey(pageNum, pageSize) ==
    <<"scenes_", NumStr(pageNum), "_", NumStr(pageSize)>>
NoKey == <<>>

\* The characters of a piece of a key.
Chars(piece) ==
    CASE piece = "devices_" -> <<"d", "e", "v", "i", "c", "e", "s", "_">>
      [] piece = "device_status_" ->
           <<"d", "e", "v", "i", "c", "e", "_", "s", "t", "a", "t", "u", "s",
             "_">>
      [] piece = "scenes_" -> <<"s", "c", "e", "n", "e", "s", "_">>
      [] piece = "_" -> <<"_">>
      [] piece = "1" -> <<"1">>
      [] piece = "2" -> <<"2">>
      [] piece = "30" -> <<"3", "0">>
      [] piece = "100" -> <<"1", "0", "0">>
      [] piece = "d1" -> <<"d", "1">>
      [] piece = "d2" -> <<"d", "2">>

\* The string a key's template evaluates to, the key node-cache compares.
RECURSIVE KeyString(_)
KeyString(key) ==
    IF key = <<>> THEN <<>> ELSE Chars(Head(key)) \o KeyString(Tail(key))

\* node-cache's _check: an entry is expired when t < Date.now().
NotExpired(e) == e.left >= 0

\* cache.get(key) finds a value.
IsHitNever(c, key) == FALSE
IsHit(c, key) == key \in DOMAIN c /\ NotExpired(c[key])

\* cache.del(key)
CacheDelNothing(c, key) == c
CacheDelByPrefix(c, key) ==
    [k \in {x \in DOMAIN c : Head(x) # Head(key)} |-> c[k]]
CacheDel(c, key) == [k \in DOMAIN c \ {key} |-> c[k]]

\* The cache after cache.get(key): get deletes the entry it finds expired.
CacheAfterGet(c, key) == IF IsHit(c, key) THEN c ELSE CacheDel(c, key)

\* cache.set(key, value, ttl), ttl in seconds; by is the invocation storing.
CacheSet(c, key, value, ttl, by) ==
    [k \in DOMAIN c \cup {key} |->
       IF k = key
       THEN [v |-> value, left |-> ttl * 1000, age |-> 0, by |-> by]
       ELSE c[k]]

\* cache.flushAll()
FlushAll == [k \in {} |-> 0]

\* The entry d milliseconds later.
Aged(e, d) ==
    [e EXCEPT !.left = IF e.left - d < 0 THEN -1 ELSE e.left - d,
              !.age = IF e.age + d > 600000 THEN 600001 ELSE e.age + d]

\* ------------------------------------- aqara-client.ts: base URL, signing

\* getBaseURL's table of domains.
domains ==
    [cn |-> "https://open-cn.aqara.com", usa |-> "https://open-usa.aqara.com",
     eu |-> "https://open-ger.aqara.com", kr |-> "https://open-kr.aqara.com",
     ru |-> "https://open-ru.aqara.com", sg |-> "https://open-sg.aqara.com"]

\* The property names an object literal inherits from Object.prototype; a
\* lookup by one of them finds the inherited member, which is truthy.
ObjectPrototype ==
    {"constructor", "toString", "toLocaleString", "valueOf", "hasOwnProperty",
     "isPrototypeOf", "propertyIsEnumerable", "__proto__"}
InheritedMember == "[member of Object.prototype]"

\* getBaseURL(region): domains[region] || domains.usa
getBaseURL(region) ==
    IF region \in DOMAIN domains THEN domains[region]
    ELSE IF region \in ObjectPrototype THEN InheritedMember
    ELSE domains.usa

\* Array.prototype.join('&') of strings given by their characters.
RECURSIVE Join(_)
Join(fields) ==
    IF Len(fields) = 0 THEN <<>>
    ELSE IF Len(fields) = 1 THEN fields[1]
    ELSE fields[1] \o <<"&">> \o Join(Tail(fields))

\* signRequest: the sign string of a request with this nonce and timestamp.
signStringTokenLast(config, nonce, timestamp) ==
    Join(<< <<"appid=">> \o toLowerCase(config.appId.s),
            <<"keyid=">> \o toLowerCase(config.keyId.s),
            <<"nonce=">> \o toLowerCase(nonce),
            <<"time=">> \o timestamp >>
         \o (IF TruthyEnv(config.accessToken)
             THEN << <<"accesstoken=">> \o toLowerCase(config.accessToken.s) >>
             ELSE <<>>))
signString(config, nonce, timestamp) ==
    Join((IF TruthyEnv(config.accessToken)
          THEN << <<"accesstoken=">> \o toLowerCase(config.accessToken.s) >>
          ELSE <<>>)
         \o << <<"appid=">> \o toLowerCase(config.appId.s),
               <<"keyid=">> \o toLowerCase(config.keyId.s),
               <<"nonce=">> \o toLowerCase(nonce),
               <<"time=">> \o timestamp >>)

\* crypto.createHmac('sha256', key).update(msg).digest('hex'), uninterpreted.
Hmac(key, msg) == [alg |-> "sha256", key |-> key, msg |-> msg]

\* The headers axios.create gives every request.
DefaultHeaders ==
    [n \in {"Content-Type", "User-Agent"} |->
       IF n = "Content-Type" THEN <<"application/json">>
       ELSE <<"AqaraMCPServer/1.0.0">>]

\* headers[name] = value
SetHeader(h, name, value) ==
    [n \in DOMAIN h \cup {name} |-> IF n = name THEN value ELSE h[n]]

\* signRequest(request): the headers of the request once signed.
signRequestTokenIfDefined(config, headers, nonce, timestamp) ==
    LET signed ==
          SetHeader(SetHeader(SetHeader(SetHeader(SetHeader(SetHeader(headers,
            "Appid", config.appId.s), "Keyid", config.keyId.s),
            "Nonce", nonce), "Time", timestamp),
            "Sign", Hmac(config.appSecret.s,
                         signString(config, nonce, timestamp))),
            "Lang", <<"en">>)
    IN IF config.accessToken.set
       THEN SetHeader(signed, "Accesstoken", config.accessToken.s)
       ELSE signed
signRequest(config, headers, nonce, timestamp) ==
    LET signed ==
          SetHeader(SetHeader(SetHeader(SetHeader(SetHeader(SetHeader(headers,
            "Appid", config.appId.s), "Keyid", config.keyId.s),
            "Nonce", nonce), "Time", timestamp),
            "Sign", Hmac(config.appSecret.s,
                         signString(config, nonce, timestamp))),
            "Lang", <<"en">>)
    IN IF TruthyEnv(config.accessToken)
       THEN SetHeader(signed, "Accesstoken", config.accessToken.s)
       ELSE signed

\* process.env, by the variables the server reads. AQARA_REGION is a whole
\* string, Undef when unset.
Env(appId, appKey, keyId, appSecret, region, accessToken) ==
    [AQARA_APP_ID |-> appId, AQARA_APP_KEY |-> appKey, AQARA_KEY_ID |-> keyId,
     AQARA_APP_SECRET |-> appSecret, AQARA_REGION |-> region,
     AQARA_ACCESS_TOKEN |-> accessToken]

\* new AqaraClient({...}) as index.ts calls it: the config read from the
\* environment (region defaulting to 'usa') and the base URL of axios.create.
NoClient == [built |-> FALSE, config |-> NoConfig, baseURL |-> Undef]
NewClient(e) ==
    LET region == IF TruthyStr(e.AQARA_REGION) THEN e.AQARA_REGION ELSE "usa"
    IN [built |-> TRUE,
        config |-> AqaraConfig(e.AQARA_APP_ID, e.AQARA_APP_KEY, e.AQARA_KEY_ID,
                               e.AQARA_APP_SECRET, region,
                               e.AQARA_ACCESS_TOKEN),
        baseURL |-> getBaseURL(region)]

\* An environment with every credential and no access token.
DefaultEnv ==
    Env(Str(<<"A", "p", "1">>), Str(<<"K", "y">>), Str(<<"K", "i", "d">>),
        Str(<<"s", "e", "c">>), "usa", Unset)

\* -------------------------------------------------------------------- state

VARIABLES
    alive,     \* the process runs (no SIGINT or SIGTERM yet)
    cache,     \* the client's NodeCache
    queue,     \* Bottleneck: the jobs submitted and not started, oldest first
    running,   \* Bottleneck: the jobs executing
    cooldown,  \* Bottleneck: milliseconds until the next job may start
    starts,    \* observed: the age in ms of each job start of the last second,
               \* newest first
    calls,     \* the tool invocations made, in order
    ticks,     \* the clock steps taken while the cache held entries
    processEnv, \* process.env, after dotenv.config()
    client,    \* aqaraClient: whether it is constructed, its config, base URL
    errlog,    \* the configuration error startup reported
    wire       \* observed: the requests sent to the transport, as signed

vars ==
    <<alive, cache, queue, running, cooldown, starts, calls, ticks, processEnv,
      client, errlog, wire>>

\* What only startup and the request interceptor change.
setup == <<processEnv, client, errlog, wire>>

\* What the tools, the limiter and the clock leave alone.
aside == <<starts, setup>>

\* The tool invocations so far, by index.
Ids == 1..Len(calls)

\* A tool's result: nothing yet, the JSON success envelope (with the response or
\* result it spreads or embeds, and the items it lists), the text of
\* formatError, or an error thrown past the tool.
Pending == [kind |-> "pending", value |-> NoEnvelope, items |-> <<>>,
            text |-> NoText]
JsonSuccess(value, items) ==
    [kind |-> "json", value |-> value, items |-> items, text |-> NoText]
ErrorText(text) ==
    [kind |-> "text", value |-> NoEnvelope, items |-> <<>>, text |-> text]
Thrown == [kind |-> "thrown", value |-> NoEnvelope, items |-> <<>>,
           text |-> NoText]

\* The vendor request body of an invocation: the intent and, of its data, the
\* time range of a history fetch.
Request(intent, startTime, endTime) ==
    [intent |-> intent, startTime |-> startTime, endTime |-> endTime]
NoRequest == Request("none", NoTime, NoTime)

\* One tool invocation: the tool and its arguments (the device or scene, the
\* page, the onlineOnly or enabledOnly flag, the time range asked), the client
\* operation's cache key (NoKey when it has none), its vendor request, where it
\* stands ("queued" in the limiter, "running" on the transport, "done"), what
\* the transport did, the client operation's outcome and the tool's result.
\* About the cache: whether the invocation was answered from it (hit), by
\* which invocation's response (src), and the age of the entry cache.get met
\* (-1 when it met none). stale: a controlDevice of the same device was called
\* while the request was on the transport; flushed: clearCache was. cleared:
\* the keys cached when a clear_cache ran. sent: the vendor requests started
\* for the invocation.
Call(tool, dev, page, flag, asked, key, req) ==
    [tool |-> tool, dev |-> dev, page |-> page, flag |-> flag, asked |-> asked,
     key |-> key, req |-> req, st |-> "queued",
     transport |-> NetworkFailure(Undef, Undef), res |-> Throw(NoError),
     out |-> Pending, hit |-> FALSE, src |-> 0, age |-> -1, stale |-> FALSE,
     flushed |-> FALSE, cleared |-> {}, sent |-> 0]

Init ==
    /\ alive = TRUE
    /\ cache = FlushAll
    /\ queue = <<>>
    /\ running = {}
    /\ cooldown = 0
    /\ starts = <<>>
    /\ calls = <<>>
    /\ ticks = 0
    /\ processEnv = DefaultEnv
    /\ client = NewClient(DefaultEnv)
    /\ errlog = NoConfigError
    /\ wire = <<>>

\* ------------------------------------------------------- aqara-client.ts

\* The job makeRequest schedules: client.post through the response
\* interceptor (axios rejects a status outside 2xx and every network failure,
\* and the interceptor hands the rejection to handleAqaraError), then
\* handleAqaraResponse.
PostSkipsCodeCheck(o) ==
    IF o.kind = "response" /\ o.status \in 200..299
    THEN IF o.hasBody THEN Ok(o.body) ELSE handleAqaraResponse(o)
    ELSE handleAqaraError(o)
Post(o) ==
    IF o.kind = "response" /\ o.status \in 200..299
    THEN handleAqaraResponse(o)
    ELSE handleAqaraError(o)

\* limiter.schedule(job): Bottleneck queues the job behind those waiting (no
\* highWater, one priority).
EnqueueDropWhenBusy(q, id) == IF Len(q) >= 1 THEN q ELSE Append(q, id)
Enqueue(q, id) == Append(q, id)

\* The limiter's queue once the job of invocation i has settled with res:
\* nothing re-submits a job, whether it returned or threw.
SettledRequeueOnFailure(q, i, res) == IF res.ok THEN q ELSE Append(q, i)
Settled(q, i, res) == q

\* Bottleneck: the job to start next is the oldest one queued.
NextJobNewest(q) == q[Len(q)]
NextJob(q) == Head(q)

\* Bottleneck: a job may start when fewer than maxConcurrent are executing and
\* minTime has passed since the last start.
CanStartOneMore(run, cool) == Cardinality(run) <= maxConcurrent /\ cool = 0
CanStartAnyTime(run, cool) == Cardinality(run) < maxConcurrent
CanStart(run, cool) == Cardinality(run) < maxConcurrent /\ cool = 0

\* The seconds a tool's client operation caches its response for.
TTLOfStatusAsList(tool) ==
    CASE tool = "list_devices" -> DeviceListTTL
      [] tool = "get_device_status" -> DeviceListTTL
      [] tool = "list_scenes" -> SceneListTTL
      [] OTHER -> 0
TTLOf(tool) ==
    CASE tool = "list_devices" -> DeviceListTTL
      [] tool = "get_device_status" -> DeviceStatusTTL
      [] tool = "list_scenes" -> SceneListTTL
      [] OTHER -> 0

\* response.data || response.result || []
ListOfResultFirst(env) ==
    IF env.result.present THEN env.result.list
    ELSE IF env.data.present THEN env.data.list ELSE <<>>
ListOf(env) ==
    IF env.data.present THEN env.data.list
    ELSE IF env.result.present THEN env.result.list ELSE <<>>

\* ------------------------------------------------------------------ index.ts

\* What a tool's execute returns for its client call's outcome: the try block's
\* JSON on a value, the catch block's formatError on any error.
ToolReturnRethrow(c, res) ==
    IF res.ok THEN JsonSuccess(res.value, <<>>)
    ELSE IF res.err.name = "AqaraError" THEN ErrorText(formatError(res.err))
    ELSE Thrown
ToolReturn(c, res) ==
    IF ~res.ok THEN ErrorText(formatError(res.err))
    ELSE IF c.tool = "list_devices" /\ c.flag
    THEN JsonSuccess(NoEnvelope,
                     SelectSeq(ListOf(res.value), LAMBDA d : d.online))
    ELSE IF c.tool = "list_scenes"
    THEN JsonSuccess(NoEnvelope,
                     IF c.flag
                     THEN SelectSeq(ListOf(res.value), LAMBDA x : x.enable)
                     ELSE ListOf(res.value))
    ELSE JsonSuccess(res.value, <<>>)

\* The invocation once its client call has settled with res.
Finish(c, res) ==
    [c EXCEPT !.st = "done", !.res = res, !.out = ToolReturn(c, res)]

\* The data of the vendor request a cached read c makes on a miss: the page
\* of getDeviceList (page 1 of 100 for getOnlineDevices) and getSceneList, the
\* dids of getDeviceStatus.
ReadData(c) ==
    IF c.tool = "get_device_status"
    THEN [pageNum |-> 0, pageSize |-> 0, dids |-> <<c.dev>>]
    ELSE IF c.tool = "list_devices" /\ c.flag
    THEN [pageNum |-> 1, pageSize |-> 100, dids |-> <<>>]
    ELSE [pageNum |-> c.page[1], pageSize |-> c.page[2], dids |-> <<>>]

\* The age of the entry cache.get(key) meets, -1 when it meets none.
AgeMet(c, key) == IF key \in DOMAIN c THEN c[key].age ELSE -1

\* A client operation that reads through the cache (getDeviceList,
\* getDeviceStatus, getSceneList), called by invocation c: the cached response
\* on a hit, else makeRequest.
CachedRead(c) ==
    IF IsHit(cache, c.key)
    THEN /\ calls' = Append(calls,
                 [Finish(c, Ok(cache[c.key].v)) EXCEPT
                    !.hit = TRUE, !.src = cache[c.key].by,
                    !.age = AgeMet(cache, c.key)])
         /\ UNCHANGED <<cache, queue>>
    ELSE /\ cache' = CacheAfterGet(cache, c.key)
         /\ calls' = Append(calls, [c EXCEPT !.age = AgeMet(cache, c.key)])
         /\ queue' = Enqueue(queue, Len(calls) + 1)

\* A client operation that always calls makeRequest.
UncachedDirect(c) ==
    /\ calls' = Append(calls, [c EXCEPT !.st = "running", !.sent = 1])
    /\ queue' = queue
UncachedReadThrough(c) == CachedRead([c EXCEPT !.key = <<c.tool, c.dev>>])
Uncached(c) ==
    /\ calls' = Append(calls, c)
    /\ queue' = Enqueue(queue, Len(calls) + 1)

\* Tool list_devices: getOnlineDevices (getDeviceList(1, 100)) when onlineOnly,
\* else getDeviceList(pageNum, pageSize).
ListDevices(pageNum, pageSize, onlineOnly, maxCalls) ==
    /\ alive /\ Len(calls) < maxCalls
    /\ CachedRead(Call("list_devices", Undef, <<pageNum, pageSize>>, onlineOnly,
                       <<NoTime, NoTime>>,
                       IF onlineOnly THEN DeviceListKey(1, 100)
                       ELSE DeviceListKey(pageNum, pageSize),
                       Request("query.device.list", NoTime, NoTime)))
    /\ UNCHANGED <<alive, running, cooldown, ticks>>

\* Tool get_device_status: getDeviceStatus(deviceId).
GetDeviceStatus(deviceId, maxCalls) ==
    /\ alive /\ Len(calls) < maxCalls
    /\ CachedRead(Call("get_device_status", deviceId, <<0, 0>>, FALSE,
                       <<NoTime, NoTime>>, DeviceStatusKey(deviceId),
                       Request("query.device.info", NoTime, NoTime)))
    /\ UNCHANGED <<alive, running, cooldown, ticks>>

\* Tool control_device: controlDevice(deviceId, resourceId, value) deletes the
\* device's status entry, then calls makeRequest. (The status requests of the
\* device that are on the transport are marked stale.)
ControlDevice(deviceId, maxCalls) ==
    /\ alive /\ Len(calls) < maxCalls
    /\ cache' = CacheDel(cache, DeviceStatusKey(deviceId))
    /\ calls' = Append(
         [i \in Ids |->
            IF i \in running /\ calls[i].key = DeviceStatusKey(deviceId)
            THEN [calls[i] EXCEPT !.stale = TRUE] ELSE calls[i]],
         Call("control_device", deviceId, <<0, 0>>, FALSE, <<NoTime, NoTime>>,
              NoKey, Request("write.device.resource", NoTime, NoTime)))
    /\ queue' = Enqueue(queue, Len(calls) + 1)
    /\ UNCHANGED <<alive, running, cooldown, ticks>>

\* Tool list_scenes: getSceneList(pageNum, pageSize).
ListScenes(pageNum, pageSize, enabledOnly, maxCalls) ==
    /\ alive /\ Len(calls) < maxCalls
    /\ CachedRead(Call("list_scenes", Undef, <<pageNum, pageSize>>, enabledOnly,
                       <<NoTime, NoTime>>, SceneListKey(pageNum, pageSize),
                       Request("query.scene.list", NoTime, NoTime)))
    /\ UNCHANGED <<alive, running, cooldown, ticks>>

\* Tool execute_scene: executeScene(sceneId).
ExecuteScene(sceneId, maxCalls) ==
    /\ alive /\ Len(calls) < maxCalls
    /\ Uncached(Call("execute_scene", sceneId, <<0, 0>>, FALSE,
                     <<NoTime, NoTime>>, NoKey,
                     Request("config.scene.run", NoTime, NoTime)))
    /\ UNCHANGED <<alive, cache, running, cooldown, ticks>>

\* Tool get_device_history: parseTimeString on both times, then
\* getDeviceHistory with the parsed strings; a time that does not parse ends
\* the tool in its catch block before the client is called.
GetDeviceHistory(deviceId, startTime, endTime, maxCalls) ==
    /\ alive /\ Len(calls) < maxCalls
    /\ LET st == parseTimeString(startTime)
           en == parseTimeString(endTime)
           c == Call("get_device_history", deviceId, <<1, 100>>, FALSE,
                     <<startTime, endTime>>, NoKey,
                     Request("fetch.device.history", st.value, en.value))
       IN IF st.ok /\ en.ok
          THEN Uncached(c)
          ELSE /\ calls' = Append(calls,
                      Finish([c EXCEPT !.req = NoRequest],
                             Throw(InvalidTimeFormat)))
               /\ UNCHANGED queue
    /\ UNCHANGED <<alive, cache, running, cooldown, ticks>>

\* Tool clear_cache: clearCache(). (The requests on the transport are marked
\* flushed.)
ClearCache(maxCalls) ==
    /\ alive /\ Len(calls) < maxCalls
    /\ cache' = FlushAll
    /\ calls' = Append(
         [i \in Ids |->
            IF i \in running THEN [calls[i] EXCEPT !.flushed = TRUE]
            ELSE calls[i]],
         [Finish(Call("clear_cache", Undef, <<0, 0>>, FALSE, <<NoTime, NoTime>>,
                      NoKey, NoRequest),
                 Ok(NoEnvelope)) EXCEPT !.cleared = DOMAIN cache])
    /\ UNCHANGED <<alive, queue, running, cooldown, ticks>>

\* Bottleneck starts the next queued job: its request goes to the transport.
LimiterStart ==
    /\ alive /\ queue # <<>>
    /\ CanStart(running, cooldown)
    /\ LET i == NextJob(queue) IN
         /\ queue' = SelectSeq(queue, LAMBDA j : j # i)
         /\ running' = running \cup {i}
         /\ calls' = [calls EXCEPT ![i].st = "running",
                                   ![i].sent = calls[i].sent + 1]
    /\ cooldown' = minTime
    /\ UNCHANGED <<alive, cache, ticks>>

\* The transport settles the request of invocation i with o: the job returns
\* or throws, Bottleneck frees its slot, the client operation stores a value
\* it caches, and the tool returns.
Respond(i, o) ==
    /\ alive /\ i \in running
    /\ running' = running \ {i}
    /\ cache' = IF Post(o).ok /\ calls[i].key # NoKey
                THEN CacheSet(cache, calls[i].key, Post(o).value,
                              TTLOf(calls[i].tool), i)
                ELSE cache
    /\ calls' = [calls EXCEPT
                   ![i] = [Finish(calls[i], Post(o)) EXCEPT !.transport = o]]
    /\ queue' = Settled(queue, i, Post(o))
    /\ UNCHANGED <<alive, cooldown, ticks>>

\* d milliseconds pass. Steps are counted while the cache holds entries, whose
\* remaining lifetimes they change.
Tick(d, maxTicks) ==
    /\ alive
    /\ DOMAIN cache = {} \/ ticks < maxTicks
    /\ ticks' = IF DOMAIN cache = {} THEN ticks ELSE ticks + 1
    /\ cooldown' = IF cooldown > d THEN cooldown - d ELSE 0
    /\ cache' = [k \in DOMAIN cache |-> Aged(cache[k], d)]
    /\ UNCHANGED <<alive, queue, running, calls>>

\* node-cache's periodic check (checkperiod) deletes the expired entries.
CacheSweep ==
    /\ alive
    /\ \E k \in DOMAIN cache : ~NotExpired(cache[k])
    /\ cache' = [k \in {x \in DOMAIN cache : NotExpired(cache[x])} |-> cache[k]]
    /\ UNCHANGED <<alive, queue, running, cooldown, calls, ticks>>

\* SIGINT or SIGTERM: clearCache(), then process.exit(0).
ShutdownKeepCache ==
    /\ alive
    /\ alive' = FALSE
    /\ UNCHANGED <<cache, queue, running, cooldown, calls, ticks>>
Shutdown ==
    /\ alive
    /\ alive' = FALSE
    /\ cache' = FlushAll
    /\ UNCHANGED <<queue, running, cooldown, calls, ticks>>

\* Startup: validateEnvironment(), then either console.error and
\* process.exit(1), or new AqaraClient and the server's start.
Startup ==
    /\ alive /\ ~client.built
    /\ errlog' = validateEnvironment(processEnv)
    /\ IF validateEnvironment(processEnv).raised
       THEN alive' = FALSE /\ client' = client
       ELSE alive' = alive /\ client' = NewClient(processEnv)
    /\ UNCHANGED <<cache, queue, running, cooldown, starts, calls, ticks,
                   processEnv, wire>>

\* The request interceptor signs the request the started job posts; nonce is
\* crypto.randomBytes(16).toString('hex'), timestamp Date.now().toString().
NoteSigned(nonce, timestamp) ==
    wire' = Append(wire,
                   [id |-> NextJob(queue), nonce |-> nonce, time |-> timestamp,
                    headers |-> signRequest(client.config, DefaultHeaders,
                                            nonce, timestamp)])

\* ------------------------------------------------------------ environment

Devices == {"d1", "d2"}
Scenes == {"s1"}

\* The vendor's bodies: a success, and rejections.
OkBody == Envelope(0, "Success", Undef, "rid", Absent, Absent)
RejectBody ==
    Envelope(108, "Invalid sign", "sign mismatch", "rid", Absent, Absent)
RejectBare == Envelope(302, "", Undef, Undef, Absent, Absent)

\* What the transport may do with a request: the vendor answers,
Outcomes ==
    {Response(200, TRUE, OkBody), Response(200, TRUE, RejectBody)}
\* or the answer has no body, or a status outside 2xx, or there is none.
AllOutcomes ==
    Outcomes \cup
    {Response(200, TRUE, RejectBare), Response(200, FALSE, NoEnvelope),
     Response(500, TRUE, OkBody), Response(500, TRUE, RejectBody),
     Response(500, TRUE, RejectBare), Response(502, FALSE, NoEnvelope),
     NetworkFailure("ECONNREFUSED", "connect ECONNREFUSED"),
     NetworkFailure("ETIMEDOUT", "connect ETIMEDOUT"),
     NetworkFailure("ECONNABORTED", "timeout of 15000ms exceeded")}

\* The clock's steps, in milliseconds: the lifetimes of the cache, and the
\* limiter's scale.
Steps == {30000, 300000, 600000}
LimSteps == {100}
OkOutcomes == {Response(200, TRUE, OkBody)}
LimOutcomes ==
    {Response(200, TRUE, OkBody),
     NetworkFailure("ECONNABORTED", "timeout of 15000ms exceeded")}

\* The time strings a caller passes: "2024-01-01T00:00:00Z",
\* "2024-01-01T00:00:00.000Z", "2024-01-02T01:00:00.500+01:00",
\* "Jan 2 2024 01:00:00 GMT", "not-a-date".
TimeStrs ==
    {TimeStr("iso", 1, 0, -1, 0), TimeStr("iso", 1, 0, 0, 0),
     TimeStr("iso", 2, 1, 500, 1), TimeStr("text", 2, 1, -1, 0),
     TimeStr("junk", 0, 0, -1, 0)}

\* The transport's outcomes the uncached operations meet: an answer, a
\* rejection, no connection.
WriteOutcomes ==
    Outcomes \cup {NetworkFailure("ECONNREFUSED", "connect ECONNREFUSED")}

\* The transport's outcomes a cached read meets: an answer, a rejection with a
\* 2xx status and with another, an answer without a body, no connection.
StoreOutcomes ==
    Outcomes \cup
    {Response(200, FALSE, NoEnvelope), Response(500, TRUE, RejectBody),
     NetworkFailure("ECONNREFUSED", "connect ECONNREFUSED")}
StoreSteps == {minTime, 30000}

\* Device lists the vendor answers with, and the envelopes that carry them: in
\* data, in result, in both (two different lists; data an empty list), in
\* neither.
SomeDevices == <<Device("d1", TRUE), Device("d2", FALSE)>>
OtherDevices == <<Device("d2", TRUE)>>
ListBody(result, data) == Envelope(0, "Success", Undef, "rid", result, data)
ListOutcomes ==
    {Response(200, TRUE, ListBody(Absent, Some(SomeDevices))),
     Response(200, TRUE, ListBody(Some(SomeDevices), Absent)),
     Response(200, TRUE, ListBody(Some(OtherDevices), Some(SomeDevices))),
     Response(200, TRUE, ListBody(Some(OtherDevices), Some(<<>>))),
     Response(200, TRUE, ListBody(Absent, Absent)),
     Response(200, TRUE, RejectBody)}
OnlinePages == {<<2, 30>>, <<1, 100>>}

\* The pages read when several keys are in play.
KeyPages == {<<1, 30>>, <<1, 100>>}

\* The environments the server is started in: every subset of the four
\* credentials missing (the app key also set to ""), with no access token, an
\* empty one or one with capitals; and, with every credential set, every
\* region of the table, none, an empty one, an unknown one and one that names
\* a member of Object.prototype.
Regions ==
    {"cn", "usa", "eu", "kr", "ru", "sg", Undef, "", "mars", "constructor"}
Envs ==
    {Env(a, k, i, x, "usa", t) :
       a \in {Unset, Str(<<"A", "p", "1">>)},
       k \in {Unset, Str(<<>>), Str(<<"K", "y">>)},
       i \in {Unset, Str(<<"K", "i", "d">>)},
       x \in {Unset, Str(<<"s", "e", "c">>)},
       t \in {Unset, Str(<<>>), Str(<<"T", "o", "K">>)}}
    \cup
    {Env(Str(<<"A", "p", "1">>), Str(<<"K", "y">>), Str(<<"K", "i", "d">>),
         Str(<<"s", "e", "c">>), r, Unset) : r \in Regions}

\* What a request is signed with: the nonce crypto.randomBytes yields (hex,
\* shortened) and the clock's reading Date.now().toString() (shortened).
SignInputs ==
    {[nonce |-> <<"a", "f", "0", "9">>, timestamp |-> <<"1", "7", "0", "0">>],
     [nonce |-> <<"3", "c", "e", "1">>, timestamp |-> <<"1", "7", "0", "1">>]}

\* The starts of the last second, as a job start and the clock change them.
NoteStart == starts' = <<0>> \o starts
NotePassed(d) ==
    starts' = SelectSeq([n \in 1..Len(starts) |-> starts[n] + d],
                        LAMBDA a : a < 1000)

\* ------------------------------------------------------------ specification

\* The server: the tools that go through the cache and the limiter.
Next ==
    \/ ListDevices(1, 30, FALSE, MaxCalls) /\ UNCHANGED aside
    \/ \E d \in Devices : GetDeviceStatus(d, MaxCalls) /\ UNCHANGED aside
    \/ \E d \in Devices : ControlDevice(d, MaxCalls) /\ UNCHANGED aside
    \/ ListScenes(1, 30, FALSE, MaxCalls) /\ UNCHANGED aside
    \/ \E sc \in Scenes : ExecuteScene(sc, MaxCalls) /\ UNCHANGED aside
    \/ ClearCache(MaxCalls) /\ UNCHANGED aside
    \/ LimiterStart /\ UNCHANGED aside
    \/ \E i \in running, o \in Outcomes : Respond(i, o) /\ UNCHANGED aside
    \/ \E d \in Steps : Tick(d, MaxTicks) /\ UNCHANGED aside
    \/ CacheSweep /\ UNCHANGED aside

Spec == Init /\ [][Next]_vars

\* The cached reads as the clock moves over their lifetimes.
ReadNext ==
    \/ ListDevices(1, 30, FALSE, MaxReadCalls) /\ UNCHANGED aside
    \/ GetDeviceStatus("d1", MaxReadCalls) /\ UNCHANGED aside
    \/ ListScenes(1, 30, FALSE, MaxReadCalls) /\ UNCHANGED aside
    \/ LimiterStart /\ UNCHANGED aside
    \/ \E i \in running, o \in OkOutcomes : Respond(i, o) /\ UNCHANGED aside
    \/ \E d \in Steps : Tick(d, MaxTicks) /\ UNCHANGED aside
    \/ CacheSweep /\ UNCHANGED aside

ReadSpec == Init /\ [][ReadNext]_vars

\* Requests of different operations sharing the limiter.
OrderNext ==
    \/ GetDeviceStatus("d1", MaxOrderCalls) /\ UNCHANGED aside
    \/ ControlDevice("d1", MaxOrderCalls) /\ UNCHANGED aside
    \/ ExecuteScene("s1", MaxOrderCalls) /\ UNCHANGED aside
    \/ LimiterStart /\ UNCHANGED aside
    \/ \E i \in running, o \in Outcomes : Respond(i, o) /\ UNCHANGED aside
    \/ Tick(minTime, MaxTicks) /\ UNCHANGED aside

OrderSpec == Init /\ [][OrderNext]_vars

\* Reads of one key racing with clear_cache.
ClearNext ==
    \/ GetDeviceStatus("d1", MaxClearCalls) /\ UNCHANGED aside
    \/ ClearCache(MaxClearCalls) /\ UNCHANGED aside
    \/ LimiterStart /\ UNCHANGED aside
    \/ \E i \in running, o \in Outcomes : Respond(i, o) /\ UNCHANGED aside
    \/ Tick(minTime, MaxTicks) /\ UNCHANGED aside

ClearSpec == Init /\ [][ClearNext]_vars

\* The tool boundary: every tool, every transport outcome.
ToolNext ==
    \/ \E onlineOnly \in BOOLEAN :
         ListDevices(1, 30, onlineOnly, MaxToolCalls) /\ UNCHANGED aside
    \/ GetDeviceStatus("d1", MaxToolCalls) /\ UNCHANGED aside
    \/ ControlDevice("d1", MaxToolCalls) /\ UNCHANGED aside
    \/ \E enabledOnly \in BOOLEAN :
         ListScenes(1, 30, enabledOnly, MaxToolCalls) /\ UNCHANGED aside
    \/ ExecuteScene("s1", MaxToolCalls) /\ UNCHANGED aside
    \/ \E st \in TimeStrs, en \in TimeStrs :
         GetDeviceHistory("d1", st, en, MaxToolCalls) /\ UNCHANGED aside
    \/ ClearCache(MaxToolCalls) /\ UNCHANGED aside
    \/ LimiterStart /\ UNCHANGED aside
    \/ \E i \in running, o \in AllOutcomes : Respond(i, o) /\ UNCHANGED aside
    \/ Tick(minTime, MaxTicks) /\ UNCHANGED aside

ToolSpec == Init /\ [][ToolNext]_vars

\* The limiter under load: requests submitted at will, each settled by the
\* vendor's answer or by the client's timeout.
LimSubmit == ExecuteScene("s1", MaxLimCalls) /\ UNCHANGED aside
FairSubmit == ExecuteScene("s1", MaxFairCalls) /\ UNCHANGED aside
LimStart == LimiterStart /\ NoteStart /\ UNCHANGED setup
LimRespond ==
    \E i \in running, o \in LimOutcomes : Respond(i, o) /\ UNCHANGED aside
LimTick ==
    \E d \in LimSteps : Tick(d, MaxTicks) /\ NotePassed(d) /\ UNCHANGED setup

LimNext == LimSubmit \/ LimStart \/ LimRespond \/ LimTick

LimSpec == Init /\ [][LimNext]_vars

\* The limiter with the process running on: the clock moves, Bottleneck starts
\* a job it may start, and the transport settles every request (its timeout).
FairNext == FairSubmit \/ LimStart \/ LimRespond \/ LimTick

FairSpec ==
    /\ Init /\ [][FairNext]_vars
    /\ WF_vars(LimStart) /\ WF_vars(LimRespond) /\ WF_vars(LimTick)

\* The server from its start: the environment is validated, the client is
\* constructed, and the tools (registered after the client exists) send signed
\* requests.
BootInit ==
    /\ alive = TRUE
    /\ cache = FlushAll
    /\ queue = <<>>
    /\ running = {}
    /\ cooldown = 0
    /\ starts = <<>>
    /\ calls = <<>>
    /\ ticks = 0
    /\ processEnv \in Envs
    /\ client = NoClient
    /\ errlog = NoConfigError
    /\ wire = <<>>

BootNext ==
    \/ Startup
    \/ client.built /\ ExecuteScene("s1", MaxBootCalls) /\ UNCHANGED aside
    \/ client.built /\ GetDeviceStatus("d1", MaxBootCalls) /\ UNCHANGED aside
    \/ \E si \in SignInputs :
         /\ client.built /\ LimiterStart /\ NoteSigned(si.nonce, si.timestamp)
         /\ UNCHANGED <<starts, processEnv, client, errlog>>
    \/ \E i \in running, o \in Outcomes : Respond(i, o) /\ UNCHANGED aside
    \/ client.built /\ Tick(minTime, MaxTicks) /\ UNCHANGED aside

BootSpec == BootInit /\ [][BootNext]_vars

\* The operations that never cache, beside a cached read of the same device.
WriteNext ==
    \/ GetDeviceStatus("d1", MaxWriteCalls) /\ UNCHANGED aside
    \/ ControlDevice("d1", MaxWriteCalls) /\ UNCHANGED aside
    \/ ExecuteScene("s1", MaxWriteCalls) /\ UNCHANGED aside
    \/ GetDeviceHistory("d1", TimeStr("iso", 1, 0, 0, 0),
                        TimeStr("iso", 2, 0, 0, 0), MaxWriteCalls)
         /\ UNCHANGED aside
    \/ LimiterStart /\ UNCHANGED aside
    \/ \E i \in running, o \in WriteOutcomes : Respond(i, o) /\ UNCHANGED aside
    \/ Tick(minTime, MaxTicks) /\ UNCHANGED aside

WriteSpec == Init /\ [][WriteNext]_vars

\* The server until a signal ends it.
StopNext ==
    \/ GetDeviceStatus("d1", MaxStopCalls) /\ UNCHANGED aside
    \/ ExecuteScene("s1", MaxStopCalls) /\ UNCHANGED aside
    \/ LimiterStart /\ UNCHANGED aside
    \/ \E i \in running, o \in Outcomes : Respond(i, o) /\ UNCHANGED aside
    \/ Tick(minTime, MaxTicks) /\ UNCHANGED aside
    \/ Shutdown /\ UNCHANGED aside

StopSpec == Init /\ [][StopNext]_vars

\* The cached reads when the vendor request may fail.
StoreNext ==
    \/ ListDevices(1, 30, FALSE, MaxStoreCalls) /\ UNCHANGED aside
    \/ GetDeviceStatus("d1", MaxStoreCalls) /\ UNCHANGED aside
    \/ ListScenes(1, 30, FALSE, MaxStoreCalls) /\ UNCHANGED aside
    \/ LimiterStart /\ UNCHANGED aside
    \/ \E i \in running, o \in StoreOutcomes : Respond(i, o) /\ UNCHANGED aside
    \/ \E d \in StoreSteps : Tick(d, MaxTicks) /\ UNCHANGED aside

StoreSpec == Init /\ [][StoreNext]_vars

\* The cached reads over several pages and devices.
KeyNext ==
    \/ \E p \in KeyPages :
         ListDevices(p[1], p[2], FALSE, MaxKeyCalls) /\ UNCHANGED aside
    \/ ListDevices(2, 30, TRUE, MaxKeyCalls) /\ UNCHANGED aside
    \/ \E d \in Devices : GetDeviceStatus(d, MaxKeyCalls) /\ UNCHANGED aside
    \/ \E p \in KeyPages :
         ListScenes(p[1], p[2], FALSE, MaxKeyCalls) /\ UNCHANGED aside
    \/ LimiterStart /\ UNCHANGED aside
    \/ \E i \in running, o \in OkOutcomes : Respond(i, o) /\ UNCHANGED aside
    \/ Tick(minTime, MaxTicks) /\ UNCHANGED aside

KeySpec == Init /\ [][KeyNext]_vars

\* Reads of two devices and of the lists, with the writes and the history.
FrameNext ==
    \/ \E d \in Devices : GetDeviceStatus(d, MaxFrameCalls) /\ UNCHANGED aside
    \/ ListDevices(1, 30, FALSE, MaxFrameCalls) /\ UNCHANGED aside
    \/ ListScenes(1, 30, FALSE, MaxFrameCalls) /\ UNCHANGED aside
    \/ ControlDevice("d1", MaxFrameCalls) /\ UNCHANGED aside
    \/ ExecuteScene("s1", MaxFrameCalls) /\ UNCHANGED aside
    \/ GetDeviceHistory("d1", TimeStr("iso", 1, 0, 0, 0),
                        TimeStr("iso", 2, 0, 0, 0), MaxFrameCalls)
         /\ UNCHANGED aside
    \/ LimiterStart /\ UNCHANGED aside
    \/ \E i \in running, o \in OkOutcomes : Respond(i, o) /\ UNCHANGED aside
    \/ Tick(minTime, MaxTicks) /\ UNCHANGED aside

FrameSpec == Init /\ [][FrameNext]_vars

\* Device listings, with and without onlineOnly.
OnlineNext ==
    \/ \E p \in OnlinePages :
         ListDevices(p[1], p[2], TRUE, MaxOnlineCalls) /\ UNCHANGED aside
    \/ ListDevices(1, 100, FALSE, MaxOnlineCalls) /\ UNCHANGED aside
    \/ LimiterStart /\ UNCHANGED aside
    \/ \E i \in running, o \in ListOutcomes : Respond(i, o) /\ UNCHANGED aside
    \/ Tick(minTime, MaxTicks) /\ UNCHANGED aside

OnlineSpec == Init /\ [][OnlineNext]_vars

\* ------------------------------------------------------------------- claims

\* The invocations whose client operation called makeRequest.
Submitted(i) == ~calls[i].hit /\ calls[i].req.intent # "none"
Started(i) == Submitted(i) /\ calls[i].st # "queued"
Done(i) == calls[i].st = "done"

\* C1: a get_device_status invoked after a controlDevice of the same device
\* is never answered from the cache with a response whose vendor request was
\* sent before that controlDevice was called.
C1_NoStatusFromBeforeControl ==
    \A j \in Ids :
      calls[j].tool = "get_device_status" /\ calls[j].hit
        => ~calls[calls[j].src].stale

\* C2: at most 3 vendor requests scheduled through the limiter are executing
\* at any instant.
C2_AtMostThreeExecuting == Cardinality(running) <= 3

\* C2 witness: three requests execute and a fourth, free to start by the
\* clock, waits for a slot.
C2_Witness == Cardinality(running) = 3 /\ queue # <<>> /\ cooldown = 0

C4_Lifetime(tool) ==
    CASE tool = "list_devices" -> 300000
      [] tool = "get_device_status" -> 30000
      [] tool = "list_scenes" -> 600000

C5_FreshAfterClear ==
    \A c \in Ids, j \in Ids :
      ( /\ calls[c].tool = "clear_cache" /\ c < j
        /\ calls[j].key \in calls[c].cleared
        /\ \A i \in (c + 1)..(j - 1) : calls[i].key # calls[j].key )
      => ~(calls[j].hit /\ calls[calls[j].src].flushed)

\* The invocations whose transport answered with a body.
WithBody(i) ==
    Done(i) /\ Submitted(i) /\ calls[i].transport.kind = "response"
            /\ calls[i].transport.hasBody

\* What C6 states of the invocation i whose transport answered with a body:
\* on code 0 the envelope is returned unchanged, on any other code an
\* AqaraError with that code, message, msgDetails and requestId is raised.
C6_Unwrapped(i) ==
    LET body == calls[i].transport.body
        res == calls[i].res
    IN IF body.code = 0
       THEN res.ok /\ res.value = body
       ELSE /\ ~res.ok /\ res.err.name = "AqaraError"
            /\ res.err.code = body.code /\ res.err.message = body.message
            /\ res.err.details = body.msgDetails
            /\ res.err.requestId = body.requestId

\* C6 as stated: it holds of every transport response that carries a body.
C6_EveryBodyUnwrapped == \A i \in Ids : WithBody(i) => C6_Unwrapped(i)

\* C6 amended: it holds of every response with a 2xx status that carries a
\* body; a response with another status and a body always raises an AqaraError.
C6_Every2xxBodyUnwrapped ==
    \A i \in Ids :
      WithBody(i) =>
        IF calls[i].transport.status \in 200..299
        THEN C6_Unwrapped(i)
        ELSE ~calls[i].res.ok /\ calls[i].res.err.name = "AqaraError"

\* C6 witness: a rejection with a 2xx status raised with the envelope's code,
\* message, details and request id.
C6_Witness ==
    \E i \in Ids :
      /\ WithBody(i) /\ calls[i].transport.status = 200
      /\ calls[i].transport.body.code = 108 /\ ~calls[i].res.ok
      /\ calls[i].res.err.code = 108
      /\ calls[i].res.err.details = "sign mismatch"

\* A time string is ISO-8601.
IsISO(ts) == ts.style = "iso"

IsCanonical(ts) == ts.style = "iso" /\ ts.ms >= 0 /\ ts.zone = 0

\* Two time strings name the same instant.
SameInstant(a, b) ==
    /\ (a.day - 1) * 24 + a.hour - a.zone = (b.day - 1) * 24 + b.hour - b.zone
    /\ (IF a.ms < 0 THEN 0 ELSE a.ms) = (IF b.ms < 0 THEN 0 ELSE b.ms)

C8_ToolsNeverThrow ==
    \A i \in Ids :
      Done(i) =>
        \/ calls[i].res.ok /\ calls[i].out.kind = "json"
        \/ ~calls[i].res.ok /\ calls[i].out.kind = "text"
                            /\ calls[i].out.text.head \in {"Aqara API Error", "Error"}

\* C8 witness: a transport error that is not an AqaraError, returned as text.
C8_Witness ==
    \E i \in Ids :
      /\ Done(i) /\ Submitted(i) /\ calls[i].res.err.name = "AxiosError"
      /\ calls[i].out.kind = "text" /\ calls[i].out.text.head = "Error"

\* C9: requests start in the order they were submitted: once a request has
\* started, every request submitted before it has started.
C9_StartInSubmissionOrder ==
    \A a, b \in Ids :
      a < b /\ Submitted(a) /\ Submitted(b) /\ Started(b) => Started(a)

\* C9 witness: of two requests of different operations, the later one has
\* completed while the earlier one, started first, still executes.
C9_Witness ==
    \E a, b \in Ids :
      /\ a < b /\ Submitted(a) /\ Submitted(b)
      /\ calls[a].tool # calls[b].tool
      /\ calls[a].st = "running" /\ Done(b)

\* C10: with the process running on and every started request settled, every
\* request submitted to the limiter starts, and a caller gets an error only
\* when its own request's transport failed.
C10_ThrottledNeverDropped ==
    /\ \A i \in 1..MaxFairCalls :
         (i \in Ids /\ Submitted(i)) ~> (i \in Ids /\ Started(i))
    /\ [](\A i \in Ids :
            Done(i) /\ ~calls[i].res.ok => calls[i].transport.kind = "neterr")

\* C10 witness: more requests than the limiter runs at once, every one of them
\* settled, the last one with a value.
C10_Witness ==
    /\ Len(calls) > maxConcurrent
    /\ \A i \in Ids : Done(i)
    /\ calls[Len(calls)].res.ok


\* C11: a vendor request reaches the transport only by being started by the
\* limiter: an invocation's request goes on the transport only from the
\* limiter's queue, while fewer than 3 execute, and then holds a slot; and only
\* a request holding a slot is settled by the transport.
C11_SentOnlyThroughLimiter ==
    [][\A i \in 1..Len(calls') :
         /\ ( /\ calls'[i].st = "running"
              /\ (i > Len(calls) \/ calls[i].st # "running") )
            => /\ i \in Ids /\ calls[i].st = "queued"
               /\ \E n \in 1..Len(queue) : queue[n] = i
               /\ Cardinality(running) < maxConcurrent
               /\ i \in running'
         /\ ( /\ calls'[i].st = "done" /\ calls'[i].sent > 0
              /\ (i > Len(calls) \/ calls[i].st # "done") )
            => i \in Ids /\ i \in running]_vars

\* C11 witness: the request of getOnlineDevices (through getDevicesByType and
\* getDeviceList) executes, holding a slot.
C11_Witness ==
    \E i \in running :
      calls[i].tool = "list_devices" /\ calls[i].flag /\ calls[i].sent = 1

\* C12: an invocation starts at most one vendor request; once it has settled
\* it is neither queued nor executing again, and a failed request is reported
\* to the caller.
C12_NoRetries ==
    \A i \in Ids :
      /\ calls[i].sent <= 1
      /\ Done(i) =>
           i \notin running /\ (\A n \in 1..Len(queue) : queue[n] # i)
      /\ Done(i) /\ Submitted(i) /\ ~calls[i].res.ok =>
           calls[i].sent = 1 /\ calls[i].out.kind = "text"

\* C12 witness: a request failed on the transport and was reported, after one
\* request.
C12_Witness ==
    \E i \in Ids :
      /\ Done(i) /\ calls[i].transport.kind = "neterr" /\ ~calls[i].res.ok
      /\ calls[i].sent = 1 /\ calls[i].out.kind = "text" /\ queue = <<>>

\* The tools whose client operation stores its response.
Caching == {"list_devices", "get_device_status", "list_scenes"}

\* C13: the cache holds only entries written by getDeviceList, getDeviceStatus
\* or getSceneList under their own key, and every controlDevice, executeScene
\* and getDeviceHistory call issues its own vendor request.
C13_UncachedNeverStored ==
    /\ \A k \in DOMAIN cache :
         calls[cache[k].by].tool \in Caching /\ calls[cache[k].by].key = k
    /\ \A i \in Ids :
         calls[i].tool \in {"control_device", "execute_scene",
                            "get_device_history"}
           => /\ ~calls[i].hit /\ Submitted(i)
              /\ calls[i].st # "queued" => calls[i].sent = 1

\* C13 witness: two identical executeScene calls, both answered, each by its
\* own request.
C13_Witness ==
    \E i, j \in Ids :
      /\ i < j
      /\ calls[i].tool = "execute_scene" /\ calls[j].tool = "execute_scene"
      /\ calls[i].dev = calls[j].dev
      /\ Done(i) /\ calls[i].res.ok /\ calls[i].sent = 1
      /\ Done(j) /\ calls[j].res.ok /\ calls[j].sent = 1

\* The messages of the errors handleAqaraError and handleAqaraResponse make.
ConnectMessage ==
    "Unable to connect to Aqara API. Please check your network connection."
TimeoutMessage == "Request to Aqara API timed out. Please try again."
MalformedMessage == "Invalid response format from Aqara API"

\* C14: a connection refusal and a timeout (the client's own 15 s timeout
\* included) are each translated into a new error that is not an AqaraError,
\* with the connection message or the timeout message, and a 2xx response
\* without a body into one with the malformed-response message; the three
\* messages differ.
C14_TransportFailuresTranslated ==
    /\ ConnectMessage # TimeoutMessage /\ ConnectMessage # MalformedMessage
    /\ TimeoutMessage # MalformedMessage
    /\ \A i \in Ids :
         Done(i) /\ Submitted(i) =>
           LET o == calls[i].transport
               e == calls[i].res.err
           IN /\ o.kind = "neterr" /\ o.errcode = "ECONNREFUSED"
                   => e.name = "Error" /\ e.message = ConnectMessage
              /\ o.kind = "neterr" /\ o.errcode \in {"ETIMEDOUT", "ECONNABORTED"}
                   => e.name = "Error" /\ e.message = TimeoutMessage
              /\ o.kind = "response" /\ o.status \in 200..299 /\ ~o.hasBody
                   => e.name = "Error" /\ e.message = MalformedMessage

\* The required variables that are missing: unset or empty.
MissingVars ==
    {x \in {requiredEnvVars[n] : n \in 1..Len(requiredEnvVars)} :
       ~TruthyEnv(processEnv[x])}

\* C15: when some of the four credentials are missing, startup reports a
\* configuration error naming exactly the missing ones, the process exits, no
\* client is constructed and no request is ever issued; when none is missing
\* no configuration error is raised.
C15_ConfigErrorNamesMissing ==
    /\ MissingVars # {} =>
         /\ ~client.built /\ calls = <<>> /\ wire = <<>>
         /\ queue = <<>> /\ running = {}
    /\ errlog.raised =>
         /\ ~alive /\ MissingVars # {}
         /\ {errlog.missing[n] : n \in 1..Len(errlog.missing)} = MissingVars
         /\ Len(errlog.missing) = Cardinality(MissingVars)
    /\ client.built => MissingVars = {} /\ ~errlog.raised
    /\ ~alive => errlog.raised

\* C15 witness: startup failed naming the two credentials that are missing,
\* the app key being set to the empty string.
C15_Witness ==
    /\ ~alive /\ errlog.raised
    /\ errlog.missing = <<"AQARA_APP_KEY", "AQARA_APP_SECRET">>
    /\ processEnv.AQARA_APP_KEY = Str(<<>>)

\* C16: the six regions of the table select six different base URLs, and
\* every other region string, or none, selects the usa base URL.
C16_RegionSelectsBaseURL ==
    /\ \A a, b \in DOMAIN domains : a # b => domains[a] # domains[b]
    /\ client.built =>
         client.baseURL =
           IF processEnv.AQARA_REGION \in DOMAIN domains
           THEN domains[processEnv.AQARA_REGION]
           ELSE "https://open-usa.aqara.com"

\* The capitals of the credentials' alphabet.
Capitals == {"A", "K", "T"}

\* C17: the sign string of every request sent is the fields accesstoken,
\* appid, keyid, nonce, time joined by '&' in that order, the accesstoken
\* field present exactly when a (non-empty) access token is configured, the
\* values of accesstoken, appid, keyid and nonce in lower case and the
\* timestamp unchanged.
C17_SignStringOrder ==
    \A n \in 1..Len(wire) :
      LET c == client.config
          w == wire[n]
          str == signString(c, w.nonce, w.time)
          rest == <<"appid=">> \o toLowerCase(c.appId.s)
                  \o <<"&", "keyid=">> \o toLowerCase(c.keyId.s)
                  \o <<"&", "nonce=">> \o toLowerCase(w.nonce)
                  \o <<"&", "time=">> \o w.time
      IN /\ str = IF TruthyEnv(c.accessToken)
                  THEN <<"accesstoken=">> \o toLowerCase(c.accessToken.s)
                       \o <<"&">> \o rest
                  ELSE rest
         /\ \A m \in 1..Len(str) : str[m] \notin Capitals

\* C17 witness: a request signed with the access token "ToK" configured.
C17_Witness ==
    \E n \in 1..Len(wire) :
      wire[n].headers.Sign.msg =
        <<"accesstoken=", "t", "o", "k", "&", "appid=", "a", "p", "1", "&",
          "keyid=", "k", "i", "d", "&", "nonce=", "a", "f", "0", "9", "&",
          "time=", "1", "7", "0", "0">>

\* C18: every request started has been signed once; a signed request carries
\* Appid, Keyid, Nonce, Time, Sign and Lang, and Accesstoken exactly when an
\* access token is configured, which is exactly when the signed string starts
\* with the accesstoken field; the string signed is the one made of the Nonce
\* and Time headers.
C18_SignedHeaders ==
    /\ \A i \in Ids :
         Cardinality({n \in 1..Len(wire) : wire[n].id = i}) = calls[i].sent
    /\ \A n \in 1..Len(wire) :
         LET h == wire[n].headers IN
           /\ {"Appid", "Keyid", "Nonce", "Time", "Sign", "Lang"}
                \subseteq DOMAIN h
           /\ h.Appid = client.config.appId.s
           /\ h.Keyid = client.config.keyId.s
           /\ ("Accesstoken" \in DOMAIN h) = TruthyEnv(client.config.accessToken)
           /\ ("Accesstoken" \in DOMAIN h) = (h.Sign.msg[1] = "accesstoken=")
           /\ h.Sign = Hmac(client.config.appSecret.s,
                            signString(client.config, h.Nonce, h.Time))

\* C18 witness: two requests sent, signed with different nonces, carrying the
\* access token.
C18_Witness ==
    /\ Len(wire) = 2 /\ wire[1].headers.Nonce # wire[2].headers.Nonce
    /\ "Accesstoken" \in DOMAIN wire[1].headers
    /\ wire[1].headers.Accesstoken = <<"T", "o", "K">>

\* C19: the step that ends the process clears the cache and starts, settles
\* and delivers nothing; after it nothing changes: a queued request never
\* starts and no request's result is stored or returned.
C19_ShutdownAbandonsWork ==
    [][ /\ (alive /\ ~alive') =>
             /\ cache' = FlushAll
             /\ queue' = queue /\ running' = running /\ calls' = calls
        /\ ~alive => UNCHANGED vars ]_vars

\* C19 witness: the process has ended with a request queued and another on
\* the transport.
C19_Witness ==
    /\ ~alive /\ queue # <<>> /\ running # {}
    /\ \E i \in Ids : Done(i) /\ calls[i].key # NoKey /\ calls[i].res.ok

\* C20: the step that calls controlDevice(D) leaves no status entry of D in
\* the cache and its request queued, not started; and the settling of a
\* controlDevice request, with whatever outcome, does not change the cache.
C20_ControlDeletesBeforeRequest ==
    [][ /\ ( /\ Len(calls') = Len(calls) + 1
             /\ calls'[Len(calls')].tool = "control_device" )
           => /\ DeviceStatusKey(calls'[Len(calls')].dev) \notin DOMAIN cache'
              /\ calls'[Len(calls')].st = "queued"
              /\ calls'[Len(calls')].sent = 0
        /\ \A i \in Ids :
             calls[i].tool = "control_device" /\ calls'[i].st # calls[i].st
               => cache' = cache ]_vars

\* C20 witness: a status of the device was cached, a controlDevice of it
\* failed on the transport, and the cache holds no status of the device.
C20_Witness ==
    \E i, j \in Ids :
      /\ i < j
      /\ calls[i].tool = "get_device_status" /\ Done(i) /\ calls[i].res.ok
      /\ calls[j].tool = "control_device" /\ calls[j].dev = calls[i].dev
      /\ Done(j) /\ calls[j].transport.kind = "neterr"
      /\ calls[i].key \notin DOMAIN cache


\* The keys of the entries cache.get would find.
Live(c) == {k \in DOMAIN c : c[k].left >= 0}

\* C21: every value in the cache is an envelope with code 0 that a cached
\* read stored after its own request succeeded on a miss; when the request of
\* a cached read fails, the error is returned to the caller and the cache is
\* unchanged; and the miss itself changes no entry cache.get would find.
C21_StoredOnlyOnSuccess ==
    /\ [](\A k \in DOMAIN cache :
            LET b == cache[k].by IN
              /\ cache[k].v.code = 0
              /\ calls[b].key = k /\ ~calls[b].hit /\ calls[b].sent = 1
              /\ calls[b].res = Ok(cache[k].v))
    /\ [][ /\ \A i \in Ids :
                ( /\ calls[i].key # NoKey /\ calls[i].st = "running"
                  /\ calls'[i].st = "done" /\ ~calls'[i].res.ok )
                => cache' = cache /\ calls'[i].out.kind = "text"
           /\ ( /\ Len(calls') = Len(calls) + 1
                /\ calls'[Len(calls')].key # NoKey )
              => /\ Live(cache') = Live(cache)
                 /\ \A k \in Live(cache) : cache'[k] = cache[k] ]_vars

\* C21 witness: with an entry cached, a cached read of another key got an
\* answer without a body; it returned the error and the entry is still there.
C21_Witness ==
    \E i, j \in Ids :
      /\ i < j /\ calls[j].key # NoKey /\ calls[j].key # calls[i].key
      /\ Done(j) /\ calls[j].transport.kind = "response"
      /\ ~calls[j].transport.hasBody /\ ~calls[j].res.ok
      /\ calls[j].out.kind = "text"
      /\ DOMAIN cache = {calls[i].key} /\ cache[calls[i].key].by = i

\* C22: a cached read that finds a live entry for its key returns the stored
\* response unchanged and submits no vendor request; one that finds none
\* submits a request, and when the request succeeds its result is stored under
\* the same key in the step that returns it.
C22_CacheConsultedFirst ==
    /\ [](\A i \in Ids :
            calls[i].key # NoKey =>
              /\ calls[i].hit =>
                   /\ calls[i].sent = 0 /\ Done(i)
                   /\ calls[calls[i].src].key = calls[i].key
                   /\ calls[i].res = calls[calls[i].src].res
              /\ ~calls[i].hit => Submitted(i))
    /\ [][ /\ ( /\ Len(calls') = Len(calls) + 1
                /\ calls'[Len(calls')].key # NoKey )
              => LET c == calls'[Len(calls')] IN
                   /\ c.hit = (c.key \in Live(cache))
                   /\ c.hit => queue' = queue /\ c.res = Ok(cache[c.key].v)
                   /\ ~c.hit => queue' = Append(queue, Len(calls'))
           /\ \A i \in Ids :
                ( /\ calls[i].key # NoKey /\ calls[i].st = "running"
                  /\ calls'[i].st = "done" /\ calls'[i].res.ok )
                => /\ calls[i].key \in DOMAIN cache'
                   /\ cache'[calls[i].key].v = calls'[i].res.value
                   /\ cache'[calls[i].key].by = i ]_vars

\* C22 witness: a cached read answered from the cache, with the response
\* another invocation's request stored, without a request of its own.
C22_Witness ==
    \E i, j \in Ids :
      /\ i < j /\ calls[j].hit /\ calls[j].src = i /\ calls[j].sent = 0
      /\ calls[j].tool = "list_devices" /\ calls[i].sent = 1
      /\ calls[j].res = calls[i].res /\ queue = <<>> /\ running = {}


\* The cached reads of invocations i and j have the same intent and data.
SameRead(i, j) ==
    /\ calls[i].req.intent = calls[j].req.intent
    /\ ReadData(calls[i]) = ReadData(calls[j])

\* C23: a response a cached read returns from the cache was stored by an
\* invocation whose vendor request had the same intent and the same data, and
\* two cached reads have the same key string only when their intent and
\* parameters are the same.
C23_KeysScoped ==
    \A i, j \in Ids :
      (calls[i].key # NoKey /\ calls[j].key # NoKey) =>
        /\ (calls[j].hit /\ calls[j].src = i) =>
             /\ Submitted(i) /\ calls[i].sent = 1 /\ SameRead(i, j)
             /\ calls[j].res = calls[i].res
        /\ (KeyString(calls[i].key) = KeyString(calls[j].key)) = SameRead(i, j)
        /\ (calls[i].key = calls[j].key) = SameRead(i, j)

\* C23 witness: with onlineOnly and page 2 of 30 asked, list_devices was
\* answered from the entry that list_devices for page 1 of 100 stored.
C23_Witness ==
    \E i, j \in Ids :
      /\ calls[j].hit /\ calls[j].src = i
      /\ calls[j].tool = "list_devices" /\ calls[j].flag
      /\ calls[j].page = <<2, 30>>
      /\ calls[i].tool = "list_devices" /\ ~calls[i].flag
      /\ calls[i].page = <<1, 100>>


\* The tools whose client operation neither reads nor stores cache entries.
Writes == {"control_device", "execute_scene", "get_device_history"}

\* C24: the call of controlDevice(D) leaves every cache entry but D's status
\* entry as it was and adds none; the calls of executeScene and
\* getDeviceHistory leave the cache as it was; and the start and the outcome
\* of the requests of all three leave the cache as it was.
C24_WritesTouchOnlyTheirTarget ==
    [][ /\ Len(calls') = Len(calls) + 1 =>
             LET c == calls'[Len(calls')] IN
               /\ c.tool = "control_device" =>
                    /\ DOMAIN cache \ {DeviceStatusKey(c.dev)} \subseteq
                         DOMAIN cache'
                    /\ DOMAIN cache' \subseteq DOMAIN cache
                    /\ \A k \in DOMAIN cache \ {DeviceStatusKey(c.dev)} :
                         cache'[k] = cache[k]
               /\ c.tool \in {"execute_scene", "get_device_history"} =>
                    cache' = cache
        /\ \A i \in Ids :
             (calls[i].tool \in Writes /\ calls'[i].st # calls[i].st)
               => cache' = cache ]_vars

\* C24 witness: with the status of d1 and another entry cached, control_device
\* of d1 was called; the status of d1 is gone and the other entry remains.
C24_Witness ==
    /\ Len(calls) = 3 /\ calls[3].tool = "control_device"
    /\ calls[3].dev = "d1"
    /\ calls[1].key = DeviceStatusKey("d1") /\ Done(1) /\ calls[1].res.ok
    /\ calls[2].key # NoKey /\ calls[2].key # calls[1].key
    /\ DOMAIN cache = {calls[2].key} /\ cache[calls[2].key].by = 2


\* The list of an envelope: data when it has one, else result, else empty.
DataElseResult(e) ==
    IF e.data.present THEN e.data.list
    ELSE IF e.result.present THEN e.result.list ELSE <<>>

\* C25: list_devices with onlineOnly, whatever page it was asked, reads the
\* device list of page 1 of 100 through the cache with at most one vendor
\* request of its own, and none on a hit; what it returns are, in order, the
\* devices with online = true of the list in the data of the envelope that
\* fetch answered with, else in its result, else of the empty list.
C25_OnlineDevicesOfPageOne ==
    \A i \in Ids :
      (calls[i].tool = "list_devices" /\ calls[i].flag) =>
        /\ calls[i].key = DeviceListKey(1, 100)
        /\ calls[i].sent <= 1
        /\ calls[i].hit => calls[i].sent = 0
        /\ (Done(i) /\ calls[i].res.ok) =>
             LET f == IF calls[i].hit THEN calls[i].src ELSE i
                 e == calls[f].transport.body
                 online == SelectSeq(DataElseResult(e), LAMBDA d : d.online)
             IN /\ calls[f].req.intent = "query.device.list"
                /\ calls[f].sent = 1
                /\ ReadData(calls[f]).pageNum = 1
                /\ ReadData(calls[f]).pageSize = 100
                /\ calls[i].out = JsonSuccess(NoEnvelope, online)
                /\ \A n \in 1..Len(calls[i].out.items) :
                     calls[i].out.items[n].online

\* C25 witness: asked page 2 of 30 with onlineOnly, list_devices returned the
\* one online device of the data list of the cached page 1 of 100, whose
\* envelope also has a result list with another device, without a request.
C25_Witness ==
    \E i, j \in Ids :
      /\ calls[j].tool = "list_devices" /\ calls[j].flag
      /\ calls[j].page = <<2, 30>> /\ calls[j].hit /\ calls[j].src = i
      /\ calls[j].sent = 0 /\ ~calls[i].flag
      /\ calls[i].res.value = ListBody(Some(OtherDevices), Some(SomeDevices))
      /\ calls[j].out.items = <<Device("d1", TRUE)>>

====
